---------------------------- MODULE Spec2Model ----------------------------
(***************************************************************************)
(* GymSight: the Session Controller (Home, the latest draft of page.tsx,   *)
(* kept as src/unnamed/part_002) driving the Frame Source (CameraFeed,     *)
(* src/src/components/camera-feed.tsx) and the Inference Client            *)
(* (analyzeExerciseForm, src/unnamed/part_000).                            *)
(*                                                                         *)
(* Every event-loop task is one action: a click handler, a timer tick, a   *)
(* promise continuation, a media or permission event.  An action runs the  *)
(* handler to its next real suspension point (a network or device await),  *)
(* then the React render and the effects that the state change triggers.   *)
(* Handlers are written as operators from a snapshot of the state (World)  *)
(* to the snapshot after the handler, so that a handler that calls another *)
(* one (handleCameraReady -> stopAnalysis) is their composition.           *)
(***************************************************************************)
EXTENDS Integers, Sequences, FiniteSets

\* ------------------------------------------------------------------ bounds
\* The Frame Source does not depend on the analysis loop, and the loop sees
\* the Frame Source only through the reports, the toggle and captureFrame.
\* A run explores one of the two in depth (its Max bounds) and the other
\* within the Side bounds; `scope`, fixed by Init, says which.
MaxRequests == 2        \* inference calls in flight
MaxTimers == 2          \* setInterval timers not yet cleared
MaxAcquisitions == 2    \* startCamera runs suspended at an await
MaxStreams == 2         \* MediaStreams whose tracks have not been stopped
MaxAborted == 1         \* play() promises rejected by a reset of the video
MaxListeners == 1       \* onchange handlers told apart (more of them repeat these)
SideRequests == 1
SideTimers == 1
SideAcquisitions == 1
SideStreams == 1
SideAborted == 0

\* --------------------------------------------------------------- constants
ANALYSIS_INTERVAL == 5000

EXERCISES == {"Squat", "Lunge"}
NoExercise == ""
NoFeedback == [none |-> TRUE]
NoError == "null"
NoTimer == "null"

PermNull == "null"
PermTrue == "true"
PermFalse == "false"

\* error messages, by the error taxonomy: the texts of one kind are one value
MsgDenied == "PermissionDenied"
MsgRevoked == "PermissionDenied"
MsgRequired == "PermissionRequired"
MsgPlayback == "PlaybackFailure"
MsgLoad == "PlaybackFailure"
MsgNoVideo == "PlaybackFailure"
MsgDevice == "DeviceUnavailable"
MsgAI == "RemoteAnalysisFailure"
MsgLost == "DeviceUnavailable"

Verdicts == [formCorrect : BOOLEAN, forExercise : EXERCISES]

VARIABLES
    \* Home (React state)
    selectedExercise, isAnalyzing, isLoading, feedback, error,
    isCameraReady, isCameraOn, hasCameraPermission,
    \* Home (refs)
    analysisIntervalRef, isAnalyzingRef,
    \* CameraFeed
    streamRef, permissionState, video,
    \* the event loop: timers, suspended continuations
    timers, requests, queries, gums, abortedPlays,
    \* the platform
    permissionsApi, platformPermission, listeners, changePending, liveStreams,
    mounted,
    \* history: the last task that ran, and the denial and failure latches
    ev, deniedSinceToggle, failedSinceToggle,
    \* the part of the program the run explores in depth
    scope

vars == <<selectedExercise, isAnalyzing, isLoading, feedback, error,
          isCameraReady, isCameraOn, hasCameraPermission,
          analysisIntervalRef, isAnalyzingRef,
          streamRef, permissionState, video,
          timers, requests, queries, gums, abortedPlays,
          permissionsApi, platformPermission, listeners, changePending,
          liveStreams, mounted, ev, deniedSinceToggle, failedSinceToggle,
          scope>>

\* The state as one record, the argument and result of every handler.
World ==
    [selectedExercise |-> selectedExercise, isAnalyzing |-> isAnalyzing,
     isLoading |-> isLoading, feedback |-> feedback, error |-> error,
     isCameraReady |-> isCameraReady, isCameraOn |-> isCameraOn,
     hasCameraPermission |-> hasCameraPermission,
     analysisIntervalRef |-> analysisIntervalRef,
     isAnalyzingRef |-> isAnalyzingRef,
     streamRef |-> streamRef, permissionState |-> permissionState,
     video |-> video,
     timers |-> timers, requests |-> requests, queries |-> queries,
     gums |-> gums, abortedPlays |-> abortedPlays,
     permissionsApi |-> permissionsApi,
     platformPermission |-> platformPermission, listeners |-> listeners,
     changePending |-> changePending, liveStreams |-> liveStreams,
     mounted |-> mounted, deniedSinceToggle |-> deniedSinceToggle,
     failedSinceToggle |-> failedSinceToggle]

\* history: the task that ran last, what it was given, and whether analysis
\* was running when it started
Event(op, detail) == [op |-> op, detail |-> detail, result |-> NoFeedback]
Settled(req, result) ==
    [op |-> IF result = NoFeedback THEN "failure" ELSE "verdict",
     detail |-> IF req.stale THEN "stale" ELSE IF req.first THEN "first" ELSE "poll",
     result |-> result]

\* ------------------------------------------------------- Session Controller

Total(f) == f["Squat"] + f["Lunge"]

\* clearInterval(analysisIntervalRef.current); analysisIntervalRef.current = null
clearIntervalRef(w) ==
    IF w.analysisIntervalRef # NoTimer
    THEN [w EXCEPT !.timers[w.analysisIntervalRef] = @ - 1,
                   !.analysisIntervalRef = NoTimer]
    ELSE w

\* history only: the inference calls in flight when stopAnalysis runs were
\* issued before it
markStale(w) ==
    [w EXCEPT !.requests = [i \in DOMAIN w.requests |->
                               [w.requests[i] EXCEPT !.stale = TRUE]]]

\* stopAnalysis with the setFeedback(null) that the source leaves commented out
stopAnalysisClearsFeedback(w) ==
    [markStale(clearIntervalRef(w)) EXCEPT !.isAnalyzing = FALSE,
                                           !.isLoading = FALSE,
                                           !.isAnalyzingRef = FALSE,
                                           !.feedback = NoFeedback]

\* stopAnalysis without its setIsLoading(false)
stopAnalysisLeavesLoading(w) ==
    [markStale(clearIntervalRef(w)) EXCEPT !.isAnalyzing = FALSE,
                                           !.isAnalyzingRef = FALSE]

stopAnalysis(w) ==
    [markStale(clearIntervalRef(w)) EXCEPT !.isAnalyzing = FALSE,
                                           !.isLoading = FALSE,
                                           !.isAnalyzingRef = FALSE]

\* ------------------------------------------------------------- Frame Source

\* streamRef.current.getTracks().forEach(stop); the video is detached, which
\* rejects a play() promise that is still pending (HTML load algorithm)
\* stopCamera without its `if (streamRef.current)`
stopCameraUnguarded(w) ==
    [w EXCEPT !.streamRef = FALSE,
              !.liveStreams = @ - 1,
              !.video = "none",
              !.abortedPlays = IF w.video = "playWait" THEN @ + 1 ELSE @]

stopCamera(w) ==
    IF w.streamRef
    THEN [w EXCEPT !.streamRef = FALSE,
                   !.liveStreams = @ - 1,
                   !.video = "none",
                   !.abortedPlays = IF w.video = "playWait" THEN @ + 1 ELSE @]
    ELSE w

\* Every closure of CameraFeed that calls reportStatus was created by an
\* effect run with isActive = true, in the render whose handleCameraReady
\* closed over isCameraOn = true.
CapturedIsCameraOn == TRUE
CapturedIsActive == TRUE

\* handleCameraReady without its stopAnalysis() call
handleCameraReadyLeavesAnalysis(w, ready, permissionGranted, cameraError) ==
    LET w1 == [w EXCEPT !.isCameraReady = ready,
                        !.hasCameraPermission = permissionGranted]
    IN  IF ~ready \/ permissionGranted = PermFalse
        THEN [w1 EXCEPT !.error = cameraError, !.isCameraOn = FALSE]
        ELSE IF ready /\ permissionGranted = PermTrue
             THEN [w1 EXCEPT !.error = NoError]
             ELSE w1

\* handleCameraReady without its setIsCameraOn(false)
handleCameraReadyKeepsCameraOn(w, ready, permissionGranted, cameraError) ==
    LET w1 == [w EXCEPT !.isCameraReady = ready,
                        !.hasCameraPermission = permissionGranted]
    IN  IF ~ready \/ permissionGranted = PermFalse
        THEN LET w2 == [w1 EXCEPT !.error = cameraError]
             IN  IF CapturedIsCameraOn THEN stopAnalysis(w2) ELSE w2
        ELSE IF ready /\ permissionGranted = PermTrue
             THEN [w1 EXCEPT !.error = NoError]
             ELSE w1

handleCameraReady(w, ready, permissionGranted, cameraError) ==
    LET w1 == [w EXCEPT !.isCameraReady = ready,
                        !.hasCameraPermission = permissionGranted]
    IN  IF ~ready \/ permissionGranted = PermFalse
        THEN LET w2 == [w1 EXCEPT !.error = cameraError]
             IN  IF CapturedIsCameraOn
                 THEN stopAnalysis([w2 EXCEPT !.isCameraOn = FALSE])
                 ELSE w2
        ELSE IF ready /\ permissionGranted = PermTrue
             THEN [w1 EXCEPT !.error = NoError]
             ELSE w1

reportStatus(w, ready, permissionGranted, cameraError) ==
    handleCameraReady([w EXCEPT !.failedSinceToggle = @ \/ ~ready],
                      ready, permissionGranted, cameraError)

\* getUserMedia is called: the run of startCamera suspends at its await
requestUserMedia(w) == [stopCamera(w) EXCEPT !.gums = @ + 1]

\* startCamera up to its first suspension
startCamera(w) ==
    IF w.permissionsApi = "unsupported"
    THEN requestUserMedia([w EXCEPT !.permissionState = "unknown"])
    ELSE [w EXCEPT !.queries = @ + 1]

\* the body of CameraFeed's effect, after the cleanup of the previous run
\* (stopCamera; the listener is looked up on a new PermissionStatus object,
\* so the registered onchange handlers stay)
CameraFeedEffect(w) ==
    LET cleaned == stopCamera(w)
    IN  IF cleaned.isCameraOn THEN startCamera(cleaned) ELSE stopCamera(cleaned)

\* Home's effect on [isAnalyzing]
HomeEffect(w) ==
    LET w1 == [w EXCEPT !.isAnalyzingRef = w.isAnalyzing]
    IN  IF ~w1.isAnalyzing /\ w1.analysisIntervalRef # NoTimer
        THEN stopAnalysis(w1)
        ELSE w1

\* the render that follows a handler, and the effects whose dependencies
\* changed
Render(w0, w) ==
    LET a == IF w.isCameraOn # w0.isCameraOn THEN CameraFeedEffect(w) ELSE w
    IN  IF a.isAnalyzing # w0.isAnalyzing THEN HomeEffect(a) ELSE a

\* after the unmount a setState is a no-op; refs and the platform still change
Frozen(w0, w) ==
    [w EXCEPT !.selectedExercise = w0.selectedExercise,
              !.isAnalyzing = w0.isAnalyzing,
              !.isLoading = w0.isLoading,
              !.feedback = w0.feedback,
              !.error = w0.error,
              !.isCameraReady = w0.isCameraReady,
              !.isCameraOn = w0.isCameraOn,
              !.hasCameraPermission = w0.hasCameraPermission,
              !.permissionState = w0.permissionState]

\* captureFrame without its look at isActive
captureFrameWhileInactive(w, canvasOk) ==
    /\ w.mounted
    /\ w.video \in {"playWait", "playing"}
    /\ w.streamRef
    /\ w.permissionState = "granted"
    /\ canvasOk

captureFrame(w, canvasOk) ==
    /\ w.mounted
    /\ w.video \in {"playWait", "playing"}
    /\ w.streamRef
    /\ w.isCameraOn
    /\ w.permissionState = "granted"
    /\ canvasOk

\* setPermissionState; the latch remembers a denial until the next toggle
setPermissionState(w, state) ==
    [w EXCEPT !.permissionState = state,
              !.deniedSinceToggle = @ \/ state = "denied"]

\* handleCameraToggle with the setError(null) that the source leaves
\* commented out in its turning-off branch
handleCameraToggleClearsOnOff(w) ==
    LET turningOn == ~w.isCameraOn
        w1 == [w EXCEPT !.isCameraOn = turningOn]
    IN  IF ~turningOn
        THEN stopAnalysis([w1 EXCEPT !.error = NoError])
        ELSE [w1 EXCEPT !.error = IF w.hasCameraPermission # PermFalse
                                  THEN NoError ELSE @,
                        !.deniedSinceToggle = FALSE,
                        !.failedSinceToggle = FALSE]

\* handleCameraToggle clearing the error whatever the recorded permission
handleCameraToggleClearsError(w) ==
    LET turningOn == ~w.isCameraOn
        w1 == [w EXCEPT !.isCameraOn = turningOn]
    IN  IF ~turningOn
        THEN stopAnalysis(w1)
        ELSE [w1 EXCEPT !.error = NoError,
                        !.deniedSinceToggle = FALSE,
                        !.failedSinceToggle = FALSE]

\* handleCameraToggle without its stopAnalysis() call
handleCameraToggleKeepsAnalysis(w) ==
    LET turningOn == ~w.isCameraOn
        w1 == [w EXCEPT !.isCameraOn = turningOn]
    IN  IF ~turningOn
        THEN w1
        ELSE [w1 EXCEPT !.error = IF w.hasCameraPermission # PermFalse
                                  THEN NoError ELSE @,
                        !.deniedSinceToggle = FALSE,
                        !.failedSinceToggle = FALSE]

handleCameraToggle(w) ==
    LET turningOn == ~w.isCameraOn
        w1 == [w EXCEPT !.isCameraOn = turningOn]
    IN  IF ~turningOn
        THEN stopAnalysis(w1)
        ELSE [w1 EXCEPT !.error = IF w.hasCameraPermission # PermFalse
                                  THEN NoError ELSE @,
                        !.deniedSinceToggle = FALSE,
                        !.failedSinceToggle = FALSE]

\* onValueChange without its stopAnalysis() call
onValueChangeKeepsAnalysis(w, value) ==
    [w EXCEPT !.selectedExercise = value, !.feedback = NoFeedback]

onValueChange(w, value) ==
    LET w1 == [w EXCEPT !.selectedExercise = value, !.feedback = NoFeedback]
    IN  IF w.isAnalyzing THEN stopAnalysis(w1) ELSE w1

\* the guards of startAnalysis (cameraFeedRef.current is set while mounted)
StartGuard(w) ==
    /\ w.selectedExercise # NoExercise
    /\ w.isCameraOn
    /\ w.hasCameraPermission = PermTrue
    /\ w.isCameraReady
    /\ w.mounted

isStartDisabled(w) ==
    \/ w.selectedExercise = NoExercise
    \/ ~w.isCameraOn
    \/ ~w.isCameraReady
    \/ w.hasCameraPermission # PermTrue
    \/ w.isLoading
    \/ w.isAnalyzing

Request(exercise, first) ==
    [ex |-> exercise, first |-> first, stale |-> FALSE, overtaken |-> FALSE]

\* history only, kept where the run follows the order of the responses:
\* the calls issued before call i and still in flight when the result of
\* call i is shown
markOvertaken(s, i) ==
    IF scope = "order"
    THEN [k \in DOMAIN s |->
             IF k < i THEN [s[k] EXCEPT !.overtaken = TRUE] ELSE s[k]]
    ELSE s

\* performAnalysis up to the await of analyzeExerciseForm.  The closure was
\* created by a startAnalysis call that passed StartGuard, so the isCameraOn,
\* isCameraReady and hasCameraPermission it reads are the values of that
\* render (true); only cameraFeedRef.current is read afresh.
\* performAnalysis taking a missing frame for a lost camera
performAnalysisStopsOnNoFrame(w, exercise, first, canvasOk) ==
    IF ~w.isAnalyzingRef
    THEN clearIntervalRef(w)
    ELSE IF ~w.mounted \/ ~captureFrame(w, canvasOk)
         THEN stopAnalysis([w EXCEPT !.error = MsgLost])
         ELSE [w EXCEPT !.requests = Append(@, Request(exercise, first))]

\* performAnalysis without its look at isAnalyzingRef
performAnalysisIgnoresStop(w, exercise, first, canvasOk) ==
    IF ~w.mounted
    THEN stopAnalysis([w EXCEPT !.error = MsgLost])
    ELSE IF captureFrame(w, canvasOk)
         THEN [w EXCEPT !.requests = Append(@, Request(exercise, first))]
         ELSE w

performAnalysis(w, exercise, first, canvasOk) ==
    IF ~w.isAnalyzingRef
    THEN clearIntervalRef(w)
    ELSE IF ~w.mounted
         THEN stopAnalysis([w EXCEPT !.error = MsgLost])
         ELSE IF captureFrame(w, canvasOk)
              THEN [w EXCEPT !.requests = Append(@, Request(exercise, first))]
              ELSE w

\* the tail of startAnalysis without its setIsLoading(false)
startAnalysisTailKeepsLoading(w, exercise) ==
    IF w.isAnalyzingRef
    THEN [w EXCEPT !.analysisIntervalRef = exercise,
                   !.timers[exercise] = @ + 1]
    ELSE w

\* startAnalysis after `await performAnalysis()`
startAnalysisTail(w, exercise) ==
    IF w.isAnalyzingRef
    THEN [w EXCEPT !.isLoading = FALSE,
                   !.analysisIntervalRef = exercise,
                   !.timers[exercise] = @ + 1]
    ELSE [w EXCEPT !.isLoading = FALSE]

\* startAnalysis raising its flags ahead of the exercise guard
startAnalysisFlagsFirst(w, canvasOk) ==
    LET w1 == [w EXCEPT !.error = NoError]
    IN  IF w.selectedExercise = NoExercise
        THEN [w1 EXCEPT !.isLoading = TRUE, !.isAnalyzing = TRUE,
                        !.isAnalyzingRef = TRUE]
        ELSE IF ~StartGuard(w)
        THEN w1
        ELSE LET w2 == clearIntervalRef(
                         [w1 EXCEPT !.feedback = NoFeedback,
                                    !.isLoading = TRUE,
                                    !.isAnalyzing = TRUE,
                                    !.isAnalyzingRef = TRUE])
                 w3 == performAnalysis(w2, w.selectedExercise, TRUE, canvasOk)
             IN  IF Len(w3.requests) > Len(w2.requests)
                 THEN w3
                 ELSE startAnalysisTail(w3, w.selectedExercise)

startAnalysis(w, canvasOk) ==
    LET w1 == [w EXCEPT !.error = NoError]
    IN  IF ~StartGuard(w)
        THEN w1
        ELSE LET w2 == clearIntervalRef(
                         [w1 EXCEPT !.feedback = NoFeedback,
                                    !.isLoading = TRUE,
                                    !.isAnalyzing = TRUE,
                                    !.isAnalyzingRef = TRUE])
                 w3 == performAnalysis(w2, w.selectedExercise, TRUE, canvasOk)
             IN  IF Len(w3.requests) > Len(w2.requests)
                 THEN w3
                 ELSE startAnalysisTail(w3, w.selectedExercise)

RemoveAt(s, i) == SubSeq(s, 1, i - 1) \o SubSeq(s, i + 1, Len(s))

\* the continuation dropping a verdict instead of showing it
analysisSettledDropsVerdict(w, i, result) ==
    LET r == w.requests[i]
        w1 == [w EXCEPT !.requests = RemoveAt(@, i)]
        w2 == IF ~w1.isAnalyzingRef
              THEN w1
              ELSE IF result # NoFeedback
                   THEN [w1 EXCEPT !.error = NoError]
                   ELSE stopAnalysis([w1 EXCEPT !.error = MsgAI,
                                                !.feedback = NoFeedback])
    IN  IF r.first THEN startAnalysisTail(w2, r.ex) ELSE w2

\* performAnalysis after the await of analyzeExerciseForm: result is a
\* verdict, or NoFeedback when the call threw
\* the continuation reporting a failure and leaving the poll loop running
analysisSettledKeepsPolling(w, i, result) ==
    LET r == w.requests[i]
        w1 == [w EXCEPT !.requests = RemoveAt(@, i)]
        w2 == IF ~w1.isAnalyzingRef
              THEN w1
              ELSE IF result # NoFeedback
                   THEN [w1 EXCEPT !.feedback = result, !.error = NoError,
                                   !.requests = markOvertaken(@, i)]
                   ELSE [w1 EXCEPT !.error = MsgAI, !.feedback = NoFeedback]
    IN  IF r.first THEN startAnalysisTail(w2, r.ex) ELSE w2

\* the continuation switching the camera off on a failure
analysisSettledTurnsCameraOff(w, i, result) ==
    LET r == w.requests[i]
        w1 == [w EXCEPT !.requests = RemoveAt(@, i)]
        w2 == IF ~w1.isAnalyzingRef
              THEN w1
              ELSE IF result # NoFeedback
                   THEN [w1 EXCEPT !.feedback = result, !.error = NoError,
                                   !.requests = markOvertaken(@, i)]
                   ELSE stopAnalysis([w1 EXCEPT !.error = MsgAI,
                                                !.feedback = NoFeedback,
                                                !.isCameraOn = FALSE])
    IN  IF r.first THEN startAnalysisTail(w2, r.ex) ELSE w2

analysisSettled(w, i, result) ==
    LET r == w.requests[i]
        w1 == [w EXCEPT !.requests = RemoveAt(@, i)]
        w2 == IF ~w1.isAnalyzingRef
              THEN w1
              ELSE IF result # NoFeedback
                   THEN [w1 EXCEPT !.feedback = result, !.error = NoError,
                                   !.requests = markOvertaken(@, i)]
                   ELSE stopAnalysis([w1 EXCEPT !.error = MsgAI,
                                                !.feedback = NoFeedback])
    IN  IF r.first THEN startAnalysisTail(w2, r.ex) ELSE w2

\* ---------------------------------------------- Frame Source continuations

\* startCamera after `await navigator.permissions.query(...)` resolved
queryResolved(w) ==
    LET w1 == setPermissionState(
                [w EXCEPT !.queries = @ - 1,
                          !.listeners = IF @ < MaxListeners THEN @ + 1 ELSE @],
                w.platformPermission)
    IN  IF w.platformPermission = "denied"
        THEN reportStatus(w1, FALSE, PermFalse, MsgDenied)
        ELSE requestUserMedia(w1)

\* ... or rejected
queryRejected(w) ==
    requestUserMedia(setPermissionState([w EXCEPT !.queries = @ - 1], "unknown"))

\* startCamera after `await getUserMedia(...)`
userMediaSettled(w, outcome) ==
    LET w0 == [w EXCEPT !.gums = @ - 1]
    IN  CASE outcome = "stream" ->
               LET w1 == setPermissionState(
                           [w0 EXCEPT !.streamRef = TRUE,
                                      !.liveStreams = @ + 1], "granted")
               IN  IF w1.mounted
                   THEN [w1 EXCEPT !.video = "attached",
                                   !.abortedPlays =
                                       IF w.video = "playWait" THEN @ + 1 ELSE @]
                   ELSE stopCamera(reportStatus(w1, FALSE, PermTrue, MsgNoVideo))
          [] outcome = "NotAllowedError" ->
               reportStatus(setPermissionState(w0, "denied"),
                            FALSE, PermFalse, MsgDenied)
          [] OTHER ->
               reportStatus(w0, FALSE, PermNull, MsgDevice)

\* video.onloadedmetadata after `await video.play()`
playSettled(w, ok) ==
    LET w1 == [w EXCEPT !.video = "playing"]
    IN  IF ok
        THEN reportStatus(w1, TRUE, PermTrue, NoError)
        ELSE stopCamera(reportStatus(w1, FALSE, PermTrue, MsgPlayback))

playAborted(w) ==
    stopCamera(reportStatus([w EXCEPT !.abortedPlays = @ - 1],
                            FALSE, PermTrue, MsgPlayback))

videoOnError(w) ==
    stopCamera(reportStatus(w, FALSE, PermTrue, MsgLoad))

\* onchange releasing the stream on a revocation without reporting it
onchangeReleasesSilently(w) ==
    LET new == w.platformPermission
        w1 == setPermissionState([w EXCEPT !.changePending = @ - 1], new)
    IN  IF new = "denied" /\ w1.streamRef
        THEN stopCamera(w1)
        ELSE IF new = "granted" /\ CapturedIsActive /\ ~w1.streamRef
        THEN startCamera(w1)
        ELSE IF new = "granted" /\ CapturedIsActive /\ w1.streamRef
        THEN reportStatus(w1, TRUE, PermTrue, NoError)
        ELSE IF new = "prompt"
        THEN reportStatus(w1, FALSE, PermNull, MsgRequired)
        ELSE w1

\* status.onchange of one PermissionStatus object
onchange(w) ==
    LET new == w.platformPermission
        w1 == setPermissionState([w EXCEPT !.changePending = @ - 1], new)
    IN  IF new = "denied" /\ w1.streamRef
        THEN reportStatus(stopCamera(w1), FALSE, PermFalse, MsgRevoked)
        ELSE IF new = "granted" /\ CapturedIsActive /\ ~w1.streamRef
        THEN startCamera(w1)
        ELSE IF new = "granted" /\ CapturedIsActive /\ w1.streamRef
        THEN reportStatus(w1, TRUE, PermTrue, NoError)
        ELSE IF new = "prompt"
        THEN reportStatus(w1, FALSE, PermNull, MsgRequired)
        ELSE w1

\* the cleanups of Home (isAnalyzingRef, stopAnalysis) and of CameraFeed; the
\* components' state is gone with them, the refs and the closures are not
unmount(w) ==
    [stopCamera(stopAnalysis(w)) EXCEPT !.mounted = FALSE,
                                        !.video = "none",
                                        !.selectedExercise = NoExercise,
                                        !.feedback = NoFeedback,
                                        !.error = NoError,
                                        !.isCameraReady = FALSE,
                                        !.isCameraOn = FALSE,
                                        !.hasCameraPermission = PermNull,
                                        !.permissionState = "unknown"]

\* ------------------------------------------------------------------ actions

Bounded(w) ==
    IF scope = "analysis"
    THEN /\ Len(w.requests) <= MaxRequests
         /\ Total(w.timers) <= MaxTimers
         /\ w.queries + w.gums <= SideAcquisitions
         /\ w.liveStreams <= SideStreams
         /\ w.abortedPlays <= SideAborted
    ELSE IF scope = "order"
    THEN /\ Len(w.requests) <= MaxRequests
         /\ Total(w.timers) <= SideTimers
         /\ w.queries + w.gums <= SideAcquisitions
         /\ w.liveStreams <= SideStreams
         /\ w.abortedPlays <= SideAborted
    ELSE IF scope = "live"
    THEN /\ Len(w.requests) <= MaxRequests
         /\ Total(w.timers) <= MaxTimers
         /\ w.queries + w.gums <= SideAcquisitions
         /\ w.liveStreams <= SideStreams
         /\ w.abortedPlays <= SideAborted
    ELSE IF scope = "session"
    THEN /\ Len(w.requests) <= SideRequests
         /\ Total(w.timers) <= SideTimers
         /\ w.queries + w.gums <= SideAcquisitions
         /\ w.liveStreams <= SideStreams
         /\ w.abortedPlays <= SideAborted
    ELSE /\ Len(w.requests) <= SideRequests
         /\ Total(w.timers) <= SideTimers
         /\ w.queries + w.gums <= MaxAcquisitions
         /\ w.liveStreams <= MaxStreams
         /\ w.abortedPlays <= MaxAborted

\* the exercises the user picks from
Offered == IF scope = "analysis" THEN EXERCISES ELSE {"Squat"}

\* the handler's result, rendered (or, after the unmount, without its
\* setState calls), becomes the next state
Commit(w, e) ==
    LET r == IF mounted THEN Render(World, w) ELSE Frozen(World, w)
    IN  /\ Bounded(r)
        /\ selectedExercise' = r.selectedExercise
        /\ isAnalyzing' = r.isAnalyzing
        /\ isLoading' = r.isLoading
        /\ feedback' = r.feedback
        /\ error' = r.error
        /\ isCameraReady' = r.isCameraReady
        /\ isCameraOn' = r.isCameraOn
        /\ hasCameraPermission' = r.hasCameraPermission
        /\ analysisIntervalRef' = r.analysisIntervalRef
        /\ isAnalyzingRef' = r.isAnalyzingRef
        /\ streamRef' = r.streamRef
        /\ permissionState' = r.permissionState
        /\ video' = r.video
        /\ timers' = r.timers
        /\ requests' = r.requests
        /\ queries' = r.queries
        /\ gums' = r.gums
        /\ abortedPlays' = r.abortedPlays
        /\ permissionsApi' = r.permissionsApi
        /\ platformPermission' = r.platformPermission
        /\ listeners' = r.listeners
        /\ changePending' = r.changePending
        /\ liveStreams' = r.liveStreams
        /\ mounted' = r.mounted
        /\ deniedSinceToggle' = r.deniedSinceToggle
        /\ failedSinceToggle' = r.failedSinceToggle
        /\ ev' = [op |-> e.op, detail |-> e.detail, result |-> e.result,
                  wasAnalyzing |-> isAnalyzing]
        /\ scope' = scope

InitState ==
    /\ selectedExercise = NoExercise
    /\ isAnalyzing = FALSE
    /\ isLoading = FALSE
    /\ feedback = NoFeedback
    /\ error = NoError
    /\ isCameraReady = FALSE
    /\ isCameraOn = FALSE
    /\ hasCameraPermission = PermNull
    /\ analysisIntervalRef = NoTimer
    /\ isAnalyzingRef = FALSE
    /\ streamRef = FALSE
    /\ permissionState = "unknown"
    /\ video = "none"
    /\ timers = [e \in EXERCISES |-> 0]
    /\ requests = <<>>
    /\ queries = 0
    /\ gums = 0
    /\ abortedPlays = 0
    /\ listeners = 0
    /\ changePending = 0
    /\ liveStreams = 0
    /\ mounted = TRUE
    /\ deniedSinceToggle = FALSE
    /\ failedSinceToggle = FALSE
    /\ ev = [op |-> "mount", detail |-> "", result |-> NoFeedback,
             wasAnalyzing |-> FALSE]

\* the camera button, disabled while the recorded permission is denied
ToggleCamera ==
    /\ mounted
    /\ hasCameraPermission # PermFalse
    /\ Commit(handleCameraToggle(World),
              Event("handleCameraToggle", IF isCameraOn THEN "off" ELSE "on"))

\* the exercise select, disabled while analyzing or loading
SelectExercise ==
    /\ mounted
    /\ ~(isAnalyzing \/ isLoading)
    /\ \E value \in Offered \ {selectedExercise} :
          Commit(onValueChange(World, value), Event("onValueChange", value))

StartOutcome(w, canvasOk) ==
    IF ~StartGuard(w) THEN "rejected"
    ELSE IF captureFrame(w, canvasOk) THEN "frame" ELSE "none"

\* the Start Analysis button
ClickStart ==
    /\ mounted
    /\ ~isAnalyzing
    /\ ~isStartDisabled(World)
    /\ \E canvasOk \in BOOLEAN :
          Commit(startAnalysis(World, canvasOk),
                 Event("startAnalysis", StartOutcome(World, canvasOk)))

\* the Stop Analysis button
ClickStop ==
    /\ mounted
    /\ isAnalyzing
    /\ Commit(stopAnalysis(World), Event("stopAnalysis", ""))

\* a tick of one setInterval timer
TimerTick ==
    \E e \in EXERCISES :
       /\ timers[e] > 0
       /\ \E canvasOk \in BOOLEAN :
             Commit(performAnalysis(World, e, FALSE, canvasOk),
                    Event("tick", IF ~isAnalyzingRef THEN "stopped"
                                  ELSE IF ~mounted THEN "lost"
                                  ELSE IF captureFrame(World, canvasOk)
                                       THEN "frame" ELSE "none"))

\* analyzeExerciseForm returns a verdict for the exercise it was asked about
AnalysisResolves ==
    \E i \in DOMAIN requests, correct \in BOOLEAN :
       LET verdict == [formCorrect |-> correct, forExercise |-> requests[i].ex]
       IN  Commit(analysisSettled(World, i, verdict),
                  Settled(requests[i], verdict))

\* ... or throws
AnalysisRejects ==
    \E i \in DOMAIN requests :
       Commit(analysisSettled(World, i, NoFeedback),
              Settled(requests[i], NoFeedback))

QueryResolves ==
    /\ queries > 0
    /\ permissionsApi = "supported"
    /\ Commit(queryResolved(World), Event("query", platformPermission))

QueryRejects ==
    /\ queries > 0
    /\ permissionsApi = "rejects"
    /\ Commit(queryRejected(World), Event("query", "rejected"))

\* getUserMedia settles: with a stream unless the platform denies, with
\* NotAllowedError unless the platform grants, or with a device error
UserMediaSettles ==
    /\ gums > 0
    /\ \E outcome \in {"stream", "NotAllowedError", "NotReadableError"} :
          /\ outcome = "stream" => platformPermission # "denied"
          /\ outcome = "NotAllowedError" => platformPermission # "granted"
          /\ Commit(userMediaSettled(World, outcome), Event("getUserMedia", outcome))

\* loadedmetadata: the handler calls video.play() and suspends
LoadedMetadata ==
    /\ mounted
    /\ video = "attached"
    /\ Commit([World EXCEPT !.video = "playWait"], Event("loadedmetadata", ""))

PlaySettles ==
    /\ video = "playWait"
    /\ \E ok \in BOOLEAN :
          Commit(playSettled(World, ok), Event("play", IF ok THEN "ok" ELSE "failed"))

PlayAborted ==
    /\ abortedPlays > 0
    /\ Commit(playAborted(World), Event("play", "aborted"))

VideoError ==
    /\ mounted
    /\ video # "none"
    /\ Commit(videoOnError(World), Event("video.onerror", ""))

\* the user (a prompt's answer, the browser's settings) changes the permission;
\* a change event is queued for every PermissionStatus that has a listener.
\* Where no PermissionStatus can be had the platform is kept at "prompt",
\* which allows getUserMedia every answer.
PermissionChanges ==
    /\ permissionsApi = "supported"
    /\ \E new \in {"prompt", "granted", "denied"} \ {platformPermission} :
       Commit([World EXCEPT !.platformPermission = new,
                            !.changePending = listeners],
              Event("permission", new))

PermissionChangeEvent ==
    /\ changePending > 0
    /\ Commit(onchange(World), Event("onchange", platformPermission))

Unmount ==
    /\ mounted
    /\ Commit(unmount(World), Event("unmount", ""))


\* The analysis loop in depth, on a platform without the Permissions API
\* (no PermissionStatus: no query continuation, no change event).
NextAnalysis ==
    \/ ToggleCamera
    \/ SelectExercise
    \/ ClickStart
    \/ ClickStop
    \/ TimerTick
    \/ AnalysisResolves
    \/ AnalysisRejects
    \/ UserMediaSettles
    \/ LoadedMetadata
    \/ PlaySettles
    \/ VideoError
    \/ Unmount

\* Without the Permissions API the code sees the platform's permission only
\* in what getUserMedia answers; "prompt" (the user is asked every time)
\* allows every answer.
Init ==
    /\ InitState
    /\ scope = "analysis"
    /\ permissionsApi = "unsupported"
    /\ platformPermission = "prompt"

\* The Frame Source in depth, on every kind of platform.
InitCamera ==
    /\ InitState
    /\ scope = "camera"
    /\ permissionsApi \in {"supported", "rejects", "unsupported"}
    /\ platformPermission \in {"prompt", "granted", "denied"}
    /\ permissionsApi # "supported" => platformPermission = "prompt"

\* startAnalysis called where its guard does not hold: the branch that the
\* button's `disabled` keeps the user from
CallStart ==
    /\ mounted
    /\ ~StartGuard(World)
    /\ Commit(startAnalysis(World, TRUE),
              Event("startAnalysis", StartOutcome(World, TRUE)))

Spec == Init /\ [][NextAnalysis]_vars
SpecCall == Init /\ [][NextAnalysis \/ CallStart]_vars
\* The Frame Source and the controller's camera handlers alone.
NextCamera ==
    \/ ToggleCamera
    \/ QueryResolves
    \/ QueryRejects
    \/ UserMediaSettles
    \/ LoadedMetadata
    \/ PlaySettles
    \/ PlayAborted
    \/ VideoError
    \/ PermissionChanges
    \/ PermissionChangeEvent
    \/ Unmount

SpecCamera == InitCamera /\ [][NextCamera]_vars

\* the controller calling captureFrame through the ref, at any time
CallCapture ==
    /\ mounted
    /\ \E canvasOk \in BOOLEAN :
          Commit(World, Event("captureFrame", IF captureFrame(World, canvasOk)
                                              THEN "frame" ELSE "none"))

SpecCapture == InitCamera /\ [][NextCamera \/ CallCapture]_vars

\* The whole session in breadth: the controller and the Frame Source on a
\* platform with the Permissions API, one of everything in flight.
InitSession ==
    /\ InitState
    /\ scope = "session"
    /\ permissionsApi = "supported"
    /\ platformPermission \in {"prompt", "granted"}

NextSession ==
    \/ ToggleCamera
    \/ SelectExercise
    \/ ClickStart
    \/ ClickStop
    \/ TimerTick
    \/ AnalysisResolves
    \/ AnalysisRejects
    \/ QueryResolves
    \/ UserMediaSettles
    \/ LoadedMetadata
    \/ PlaySettles
    \/ VideoError
    \/ PermissionChanges
    \/ PermissionChangeEvent
    \/ Unmount

SpecSession == InitSession /\ [][NextSession]_vars

\* handleCameraToggle called where the button is disabled (the recorded
\* permission is denied)
CallToggle ==
    /\ mounted
    /\ hasCameraPermission = PermFalse
    /\ Commit(handleCameraToggle(World),
              Event("handleCameraToggle", IF isCameraOn THEN "off" ELSE "on"))

\* onValueChange called where the select is disabled (analyzing or loading)
CallSelect ==
    /\ mounted
    /\ isAnalyzing \/ isLoading
    /\ \E value \in EXERCISES \ {selectedExercise} :
          Commit(onValueChange(World, value), Event("onValueChange", value))

\* The controller's handlers called also where `disabled` keeps the user
\* from them, one of everything in flight, on a platform without the
\* Permissions API.
InitDirect ==
    /\ InitState
    /\ scope = "session"
    /\ permissionsApi = "unsupported"
    /\ platformPermission = "prompt"

NextDirect ==
    \/ ToggleCamera
    \/ CallToggle
    \/ SelectExercise
    \/ CallSelect
    \/ ClickStart
    \/ ClickStop
    \/ TimerTick
    \/ AnalysisResolves
    \/ AnalysisRejects
    \/ UserMediaSettles
    \/ LoadedMetadata
    \/ PlaySettles

SpecDirect == InitDirect /\ [][NextDirect]_vars

\* The poll loop with one timer and two inference calls in flight, the
\* responses in any order.
InitOrder ==
    /\ InitState
    /\ scope = "order"
    /\ permissionsApi = "unsupported"
    /\ platformPermission = "prompt"

SpecOrder == InitOrder /\ [][NextAnalysis]_vars

\* The poll loop where nothing fails: while analysis runs the camera stays
\* as it is (on, ready, permitted), every captureFrame returns a frame and
\* every analyzeExerciseForm call returns a verdict.  The user selects,
\* starts and stops as the buttons allow, and switches the camera only
\* between analyses.
InitLive ==
    /\ InitState
    /\ scope = "live"
    /\ permissionsApi = "unsupported"
    /\ platformPermission = "prompt"

\* first calls in flight: each installs a timer when it returns
FirstInFlight(s) == Cardinality({i \in DOMAIN s : s[i].first})

LiveToggle ==
    /\ ~isAnalyzing
    /\ ToggleCamera

LiveUserMedia ==
    /\ ~isAnalyzing
    /\ gums > 0
    /\ Commit(userMediaSettled(World, "stream"), Event("getUserMedia", "stream"))

LiveLoadedMetadata ==
    /\ ~isAnalyzing
    /\ LoadedMetadata

LivePlay ==
    /\ ~isAnalyzing
    /\ video = "playWait"
    /\ Commit(playSettled(World, TRUE), Event("play", "ok"))

\* the Start Analysis button, pressed where captureFrame returns a frame;
\* the timers that may come to be installed stay within MaxTimers
LiveStart ==
    /\ mounted
    /\ ~isAnalyzing
    /\ ~isStartDisabled(World)
    /\ captureFrame(World, TRUE)
    /\ Total(clearIntervalRef(World).timers) + FirstInFlight(requests)
          < MaxTimers
    /\ Commit(startAnalysis(World, TRUE), Event("startAnalysis", "frame"))

\* a tick of one setInterval timer, its captureFrame returning a frame
LiveTick ==
    \E e \in EXERCISES :
       /\ timers[e] > 0
       /\ isAnalyzingRef => captureFrame(World, TRUE)
       /\ Commit(performAnalysis(World, e, FALSE, TRUE),
                 Event("tick", IF ~isAnalyzingRef THEN "stopped" ELSE "frame"))

\* the inference call that was issued first returns a verdict
OldestResolves ==
    /\ requests # <<>>
    /\ \E correct \in BOOLEAN :
          LET verdict == [formCorrect |-> correct, forExercise |-> requests[1].ex]
          IN  Commit(analysisSettled(World, 1, verdict),
                     Settled(requests[1], verdict))

NextLive ==
    \/ LiveToggle
    \/ SelectExercise
    \/ LiveStart
    \/ ClickStop
    \/ LiveTick
    \/ AnalysisResolves
    \/ LiveUserMedia
    \/ LiveLoadedMetadata
    \/ LivePlay

\* setInterval keeps firing a timer that is not cleared, and every call of
\* analyzeExerciseForm returns
SpecLive ==
    /\ InitLive
    /\ [][NextLive]_vars
    /\ WF_vars(LiveTick)
    /\ WF_vars(OldestResolves)

-----------------------------------------------------------------------------
(* The two earlier drafts of the Session Controller: src/src/app/page.tsx    *)
(* and src/unnamed/part_001.  Neither has isAnalyzingRef: what a closure     *)
(* reads of isAnalyzing and isLoading is the value of the render that        *)
(* created the closure, passed here as capturedIsAnalyzing and               *)
(* capturedIsLoading.  In both drafts the camera button is disabled while    *)
(* the camera is off and not ready, which is the initial state, so every     *)
(* handler is taken as called directly.  The Frame Source is seen through    *)
(* its reports and through what captureFrame returns.                        *)

\* startAnalysis is not called while isLoading is true (the Start button is
\* disabled then), so no closure of a draft has seen isLoading = true
CapturedIsLoading == FALSE

DraftRequest(exercise, first, capturedIsAnalyzing) ==
    [ex |-> exercise, first |-> first, stale |-> FALSE,
     isAnalyzing |-> capturedIsAnalyzing]

\* ---- src/src/app/page.tsx
page_stopAnalysis(w) ==
    [markStale(clearIntervalRef(w)) EXCEPT !.isAnalyzing = FALSE,
                                           !.isLoading = FALSE]

page_handleCameraReady(w, ready) ==
    IF ~ready
    THEN [w EXCEPT !.isCameraReady = FALSE, !.isCameraOn = FALSE,
                   !.error = MsgDevice]
    ELSE [w EXCEPT !.isCameraReady = TRUE, !.error = NoError]

page_handleCameraToggle(w) ==
    LET w1 == [w EXCEPT !.isCameraOn = ~w.isCameraOn]
    IN  IF w.isCameraOn THEN page_stopAnalysis(w1) ELSE w1

page_onValueChange(w, value) ==
    LET w1 == [w EXCEPT !.selectedExercise = value, !.feedback = NoFeedback,
                        !.error = NoError]
    IN  IF w.isAnalyzing THEN page_stopAnalysis(w1) ELSE w1

page_StartGuard(w) ==
    /\ w.selectedExercise # NoExercise
    /\ w.isCameraReady
    /\ w.isCameraOn
    /\ w.mounted

\* performAnalysis up to the await of analyzeExerciseForm
page_performAnalysis(w, exercise, first, capturedIsAnalyzing, frame) ==
    IF ~w.mounted
    THEN w
    ELSE IF w.analysisIntervalRef = NoTimer /\ ~CapturedIsLoading
    THEN w
    ELSE IF frame
    THEN [w EXCEPT !.requests =
                       Append(@, DraftRequest(exercise, first, capturedIsAnalyzing))]
    ELSE w

\* startAnalysis after `await performAnalysis()`
page_startAnalysisTail(w, exercise, capturedIsAnalyzing) ==
    LET w1 == [w EXCEPT !.isLoading = FALSE]
    IN  IF w1.analysisIntervalRef = NoTimer /\ capturedIsAnalyzing
        THEN [w1 EXCEPT !.analysisIntervalRef = exercise,
                        !.timers[exercise] = @ + 1]
        ELSE w1

page_startAnalysis(w, frame) ==
    IF ~page_StartGuard(w)
    THEN w
    ELSE LET w1 == [w EXCEPT !.error = NoError, !.feedback = NoFeedback,
                             !.isLoading = TRUE, !.isAnalyzing = TRUE]
             w2 == page_performAnalysis(w1, w.selectedExercise, TRUE,
                                        w.isAnalyzing, frame)
         IN  IF Len(w2.requests) > Len(w1.requests)
             THEN w2
             ELSE page_startAnalysisTail(w2, w.selectedExercise, w.isAnalyzing)

\* performAnalysis after the await of analyzeExerciseForm
page_analysisSettled(w, i, result) ==
    LET r == w.requests[i]
        w1 == [w EXCEPT !.requests = RemoveAt(@, i)]
        w2 == IF result # NoFeedback
              THEN [w1 EXCEPT !.feedback = result, !.error = NoError]
              ELSE page_stopAnalysis([w1 EXCEPT !.error = MsgAI,
                                                !.feedback = NoFeedback])
    IN  IF r.first THEN page_startAnalysisTail(w2, r.ex, r.isAnalyzing) ELSE w2

\* ---- src/unnamed/part_001
\* stopAnalysis sets a flag only where the render that created the closure
\* had it true
part001_stopAnalysis(w, capturedIsAnalyzing, capturedIsLoading) ==
    [markStale(clearIntervalRef(w)) EXCEPT
        !.isAnalyzing = IF capturedIsAnalyzing THEN FALSE ELSE @,
        !.isLoading = IF capturedIsLoading THEN FALSE ELSE @]

\* the effect on [stopAnalysis]: stopAnalysis is a new function whenever
\* isAnalyzing or isLoading changed, and the cleanup then calls the one of
\* the previous render; repeated until a render changes neither
RECURSIVE part001_Effect(_, _)
part001_Effect(prev, cur) ==
    IF cur.isAnalyzing = prev.isAnalyzing /\ cur.isLoading = prev.isLoading
    THEN cur
    ELSE part001_Effect(cur, part001_stopAnalysis(cur, prev.isAnalyzing,
                                                  prev.isLoading))

part001_handleCameraReady(w, ready, permissionGranted, cameraError) ==
    LET w1 == [w EXCEPT !.isCameraReady = ready,
                        !.hasCameraPermission = permissionGranted]
    IN  IF ~ready \/ permissionGranted = PermFalse
        THEN part001_stopAnalysis([w1 EXCEPT !.isCameraOn = FALSE,
                                             !.error = cameraError],
                                  w.isAnalyzing, w.isLoading)
        ELSE IF ready /\ permissionGranted = PermTrue
             THEN [w1 EXCEPT !.error = NoError]
             ELSE w1

part001_handleCameraToggle(w) ==
    LET turningOn == ~w.isCameraOn
        w1 == [w EXCEPT !.isCameraOn = turningOn]
    IN  IF ~turningOn
        THEN part001_stopAnalysis(w1, w.isAnalyzing, w.isLoading)
        ELSE [w1 EXCEPT !.error = IF w.hasCameraPermission # PermFalse
                                  THEN NoError ELSE @]

part001_onValueChange(w, value) ==
    LET w1 == [w EXCEPT !.selectedExercise = value, !.feedback = NoFeedback]
    IN  IF w.isAnalyzing
        THEN part001_stopAnalysis(w1, w.isAnalyzing, w.isLoading)
        ELSE w1

part001_StartGuard(w) ==
    /\ w.selectedExercise # NoExercise
    /\ w.isCameraOn
    /\ w.hasCameraPermission = PermTrue
    /\ w.isCameraReady
    /\ w.mounted

\* performAnalysis up to the await of analyzeExerciseForm; the camera flags
\* it reads are those startAnalysis has just passed its guard on
part001_performAnalysis(w, exercise, first, capturedIsAnalyzing, frame) ==
    IF w.analysisIntervalRef = NoTimer /\ ~CapturedIsLoading /\ ~capturedIsAnalyzing
    THEN w
    ELSE IF ~w.mounted
    THEN part001_stopAnalysis([w EXCEPT !.error = MsgLost],
                              capturedIsAnalyzing, CapturedIsLoading)
    ELSE IF frame
    THEN [w EXCEPT !.requests =
                       Append(@, DraftRequest(exercise, first, capturedIsAnalyzing))]
    ELSE w

\* startAnalysis after `await performAnalysis()`
part001_startAnalysisTail(w, exercise, capturedIsAnalyzing) ==
    IF capturedIsAnalyzing
    THEN [w EXCEPT !.isLoading = FALSE,
                   !.analysisIntervalRef = exercise,
                   !.timers[exercise] = @ + 1]
    ELSE [w EXCEPT !.isLoading = FALSE]

\* startAnalysis with the renders it causes: one after its synchronous part
\* and, where performAnalysis returned without a network await, one after
\* the tail
part001_startAnalysis(w, frame) ==
    LET w0 == [w EXCEPT !.error = NoError]
    IN  IF ~part001_StartGuard(w)
        THEN w0
        ELSE LET w1 == clearIntervalRef(
                         [w0 EXCEPT !.feedback = NoFeedback,
                                    !.isLoading = TRUE,
                                    !.isAnalyzing = TRUE])
                 w2 == part001_performAnalysis(w1, w.selectedExercise, TRUE,
                                               w.isAnalyzing, frame)
                 w3 == part001_Effect(w, w2)
             IN  IF Len(w2.requests) > Len(w1.requests)
                 THEN w3
                 ELSE part001_Effect(w3,
                         part001_startAnalysisTail(w3, w.selectedExercise,
                                                   w.isAnalyzing))

\* performAnalysis after the await of analyzeExerciseForm
part001_analysisSettled(w, i, result) ==
    LET r == w.requests[i]
        w1 == [w EXCEPT !.requests = RemoveAt(@, i)]
        w2 == IF w1.analysisIntervalRef = NoTimer /\ ~CapturedIsLoading
              THEN w1
              ELSE IF result # NoFeedback
                   THEN [w1 EXCEPT !.feedback = result, !.error = NoError]
                   ELSE part001_stopAnalysis(
                           [w1 EXCEPT !.error = MsgAI, !.feedback = NoFeedback],
                           r.isAnalyzing, CapturedIsLoading)
    IN  IF r.first
        THEN part001_startAnalysisTail(w2, r.ex, r.isAnalyzing)
        ELSE w2

\* ---- the drafts' tasks
\* the render after a handler and the effects it triggers
DraftRendered(w0, w) ==
    IF scope = "part_001" THEN part001_Effect(w0, w) ELSE w

DraftCommit(r, e) ==
    /\ Bounded(r)
    /\ selectedExercise' = r.selectedExercise
    /\ isAnalyzing' = r.isAnalyzing
    /\ isLoading' = r.isLoading
    /\ feedback' = r.feedback
    /\ error' = r.error
    /\ isCameraReady' = r.isCameraReady
    /\ isCameraOn' = r.isCameraOn
    /\ hasCameraPermission' = r.hasCameraPermission
    /\ analysisIntervalRef' = r.analysisIntervalRef
    /\ timers' = r.timers
    /\ requests' = r.requests
    /\ ev' = [op |-> e.op, detail |-> e.detail, result |-> e.result,
              wasAnalyzing |-> isAnalyzing]
    /\ UNCHANGED <<isAnalyzingRef, streamRef, permissionState, video, queries,
                   gums, abortedPlays, permissionsApi, platformPermission,
                   listeners, changePending, liveStreams, mounted,
                   deniedSinceToggle, failedSinceToggle, scope>>

DraftInit ==
    /\ InitState
    /\ scope \in {"page.tsx", "part_001"}
    /\ permissionsApi = "unsupported"
    /\ platformPermission = "prompt"

DraftToggle ==
    /\ mounted
    /\ DraftCommit(DraftRendered(World,
                       IF scope = "page.tsx" THEN page_handleCameraToggle(World)
                       ELSE part001_handleCameraToggle(World)),
                   Event("handleCameraToggle", IF isCameraOn THEN "off" ELSE "on"))

\* what reportStatus is called with in camera-feed.tsx
Reports ==
    {[ready |-> TRUE, permission |-> PermTrue, message |-> NoError],
     [ready |-> FALSE, permission |-> PermFalse, message |-> MsgDenied],
     [ready |-> FALSE, permission |-> PermNull, message |-> MsgDevice],
     [ready |-> FALSE, permission |-> PermTrue, message |-> MsgPlayback]}

\* the Frame Source, active, reports
DraftReport ==
    /\ isCameraOn
    /\ \E rep \in Reports :
          DraftCommit(DraftRendered(World,
                          IF scope = "page.tsx"
                          THEN page_handleCameraReady(World, rep.ready)
                          ELSE part001_handleCameraReady(World, rep.ready,
                                                         rep.permission,
                                                         rep.message)),
                      Event("onReady", rep.message))

DraftSelect ==
    \E value \in EXERCISES \ {selectedExercise} :
       DraftCommit(DraftRendered(World,
                       IF scope = "page.tsx" THEN page_onValueChange(World, value)
                       ELSE part001_onValueChange(World, value)),
                   Event("onValueChange", value))

DraftGuard ==
    IF scope = "page.tsx" THEN page_StartGuard(World)
    ELSE part001_StartGuard(World)

\* how far the first performAnalysis of a startAnalysis call gets
DraftStartOutcome(frame) ==
    IF ~DraftGuard THEN "rejected"
    ELSE IF scope = "page.tsx" /\ analysisIntervalRef = NoTimer /\ ~CapturedIsLoading
    THEN "skipped"
    ELSE IF scope = "part_001" /\ ~CapturedIsLoading /\ ~isAnalyzing
    THEN "skipped"
    ELSE IF frame THEN "frame" ELSE "none"

\* captureFrame returns a frame only from an active, ready camera
DraftStart ==
    /\ ~isLoading
    /\ \E frame \in BOOLEAN :
          /\ frame => isCameraOn /\ isCameraReady
          /\ DraftCommit(IF scope = "page.tsx" THEN page_startAnalysis(World, frame)
                         ELSE part001_startAnalysis(World, frame),
                         Event("startAnalysis", DraftStartOutcome(frame)))

\* the Stop Analysis button, shown while isAnalyzing
DraftStop ==
    /\ isAnalyzing
    /\ DraftCommit(DraftRendered(World,
                       IF scope = "page.tsx" THEN page_stopAnalysis(World)
                       ELSE part001_stopAnalysis(World, isAnalyzing, isLoading)),
                   Event("stopAnalysis", ""))

\* a tick of the interval; its closure belongs to a startAnalysis call that
\* read isAnalyzing = true, or it would not have installed the timer
DraftTick ==
    \E e \in EXERCISES, frame \in BOOLEAN :
       /\ timers[e] > 0
       /\ frame => isCameraOn /\ isCameraReady
       /\ DraftCommit(DraftRendered(World,
                          IF scope = "page.tsx"
                          THEN page_performAnalysis(World, e, FALSE, TRUE, frame)
                          ELSE part001_performAnalysis(World, e, FALSE, TRUE, frame)),
                      Event("tick", IF frame THEN "frame" ELSE "none"))

DraftResolves ==
    \E i \in DOMAIN requests, correct \in BOOLEAN :
       LET verdict == [formCorrect |-> correct, forExercise |-> requests[i].ex]
       IN  DraftCommit(DraftRendered(World,
                           IF scope = "page.tsx"
                           THEN page_analysisSettled(World, i, verdict)
                           ELSE part001_analysisSettled(World, i, verdict)),
                       Settled(requests[i], verdict))

DraftRejects ==
    \E i \in DOMAIN requests :
       DraftCommit(DraftRendered(World,
                       IF scope = "page.tsx"
                       THEN page_analysisSettled(World, i, NoFeedback)
                       ELSE part001_analysisSettled(World, i, NoFeedback)),
                   Settled(requests[i], NoFeedback))

\* the `disabled` of the camera button
DraftToggleDisabled ==
    IF scope = "page.tsx"
    THEN ~isCameraReady /\ ~isCameraOn
    ELSE (~isCameraReady /\ ~isCameraOn) \/ hasCameraPermission = PermFalse

NextDraft ==
    \/ DraftToggle
    \/ DraftReport
    \/ DraftSelect
    \/ DraftStart
    \/ DraftStop
    \/ DraftTick
    \/ DraftResolves
    \/ DraftRejects

SpecDraft == DraftInit /\ [][NextDraft]_vars

-----------------------------------------------------------------------------
(* Properties of the Frame Source and of the analysis loop *)

\* C1: at any time the Frame Source holds at most one live media stream
\* (one capture handle on the device); a new acquisition never leaves a
\* previously acquired stream un-released.
C1_AtMostOneLiveStream == liveStreams <= 1

\* a response to a request that a stopAnalysis() has since overtaken
StaleResponse == ev'.op \in {"verdict", "failure"} /\ ev'.detail = "stale"

\* C2: a response to a request issued before a stopAnalysis() call, arriving
\* after that call, changes neither `feedback` nor `error`.
C2_StaleResponseIsDropped ==
    [][StaleResponse => feedback' = feedback /\ error' = error]_vars

\* C3: at most one poll timer is active at any time; whenever startAnalysis
\* installs a timer, every timer installed earlier has been cancelled.
C3_AtMostOnePollTimer == Total(timers) <= 1

\* C4: whenever a poll timer is active, isAnalyzing is true; when isAnalyzing
\* is false no timer is pending.
C4_TimerImpliesAnalyzing == Total(timers) > 0 => isAnalyzing

\* C5: during analysis at most one capture + inference cycle is in flight
\* at a time.
C5_AtMostOneCycleInFlight == Len(requests) <= 1

\* C6: once the permission state is denied, no getUserMedia request is issued
\* until the user toggles the camera again; and while the controller's
\* permission flag is false the camera is off and the toggle is disabled.
C6_DeniedUntilUserActs ==
    [][/\ gums' > gums => ~deniedSinceToggle'
       /\ hasCameraPermission = PermFalse =>
             ~isCameraOn /\ ~ENABLED ToggleCamera]_vars

\* the Frame Source reporting (ready = false, permission = denied)
DeniedReport ==
    \/ ev'.op = "getUserMedia" /\ ev'.detail = "NotAllowedError"
    \/ ev'.op = "query" /\ ev'.detail = "denied"
    \/ ev'.op = "onchange" /\ ev'.detail = "denied" /\ streamRef

C8_NoExerciseNoStart ==
    [][ev'.op = "startAnalysis" /\ selectedExercise = NoExercise =>
         /\ timers' = timers
         /\ analysisIntervalRef' = analysisIntervalRef
         /\ isAnalyzing' = isAnalyzing]_vars

C8_CalledWithoutExercise ==
    /\ ev.op = "startAnalysis" /\ ev.detail = "rejected"
    /\ selectedExercise = NoExercise
    /\ isCameraOn /\ isCameraReady /\ hasCameraPermission = PermTrue
    /\ ~isAnalyzing /\ Total(timers) = 0

\* C9: startAnalysis called where its guard fails leaves every field of the
\* session state, and the timer, unchanged.
C9_RejectedStartChangesNothing ==
    [][ev'.op = "startAnalysis" /\ ev'.detail = "rejected" =>
         UNCHANGED <<selectedExercise, isCameraOn, isCameraReady,
                     hasCameraPermission, isAnalyzing, isLoading, feedback,
                     error, timers, analysisIntervalRef>>]_vars

\* C10: startAnalysis whose first capture returns a frame, followed with no
\* event in between by the verdict V of that inference call, results in
\* isAnalyzing, not isLoading, feedback = V, no error, and exactly one
\* recurring timer scheduled.
C10_FirstCycleSucceeds ==
    [][/\ ev.op = "startAnalysis" /\ ev.detail = "frame"
       /\ ev'.op = "verdict" /\ ev'.detail = "first"
       => /\ isAnalyzing' /\ ~isLoading'
          /\ feedback' = ev'.result
          /\ error' = NoError
          /\ analysisIntervalRef' # NoTimer
          /\ Total(timers') = 1]_vars

\* C11: a poll cycle in which captureFrame returns none issues no inference
\* call and leaves feedback, error, isAnalyzing and the timer as they were.
C11_NoFrameNoChange ==
    [][ev'.op = "tick" /\ ev'.detail = "none" =>
         UNCHANGED <<requests, feedback, error, isAnalyzing, isAnalyzingRef,
                     isLoading, timers, analysisIntervalRef>>]_vars

C11_CycleWithoutFrame ==
    /\ ev.op = "tick" /\ ev.detail = "none"
    /\ isAnalyzing /\ analysisIntervalRef # NoTimer
    /\ feedback \in Verdicts
    /\ requests = <<>>

\* the timers after the one analysisIntervalRef holds is cleared
TimersAfterClear ==
    IF analysisIntervalRef = NoTimer THEN timers
    ELSE [timers EXCEPT ![analysisIntervalRef] = @ - 1]

C13_FailureLeavesCamera ==
    [][ev'.op = "failure" =>
         UNCHANGED <<isCameraOn, isCameraReady, hasCameraPermission,
                     streamRef, liveStreams, video, permissionState,
                     queries, gums>>]_vars

C13_FailureWithCameraLive ==
    /\ ev.op = "failure" /\ ev.detail # "stale"
    /\ ~isAnalyzing /\ error = MsgAI
    /\ isCameraOn /\ isCameraReady /\ hasCameraPermission = PermTrue
    /\ streamRef /\ liveStreams = 1 /\ video = "playing"

\* C14: once analysis has stopped, no inference request is issued, no
\* timer is installed and isAnalyzing stays false until startAnalysis is
\* called again: no timer tick and no pending continuation restarts the loop.
C14_StoppedUntilStart ==
    [][~isAnalyzing /\ ev'.op # "startAnalysis" =>
         /\ ~isAnalyzing' /\ ~isAnalyzingRef'
         /\ Len(requests') <= Len(requests)
         /\ \A e \in EXERCISES : timers'[e] <= timers[e]]_vars

C14_TickWhileStopped ==
    /\ ev.op = "tick" /\ ev.detail = "stopped"
    /\ ~isAnalyzing /\ Total(timers) > 0
    /\ isCameraOn /\ isCameraReady /\ hasCameraPermission = PermTrue
    /\ streamRef /\ video = "playing"

\* C15: captureFrame returns a frame only when the Frame Source is active,
\* holds a stream, the video has its dimensions and the permission state is
\* granted; whenever one of these fails it returns none.
C15_FrameOnlyWhenLive ==
    [][ev'.op = "captureFrame" /\ ev'.detail = "frame" =>
         /\ isCameraOn
         /\ streamRef
         /\ video \in {"playWait", "playing"}
         /\ permissionState = "granted"]_vars

C15_NoneWhileInactive ==
    /\ ev.op = "captureFrame" /\ ev.detail = "none"
    /\ ~isCameraOn
    /\ streamRef /\ video = "playing" /\ permissionState = "granted"

\* C16: after the Frame Source has reported a failure (ready = false) it
\* issues no getUserMedia request until the user toggles the camera on
\* again; no permission-change event makes it acquire on its own.
C16_NoRetryAfterFailure ==
    [][gums' > gums => ~failedSinceToggle']_vars

\* C17: whenever capture is disabled (camera off, or the component
\* unmounted) no stream is held, even when an acquisition was in flight at
\* the moment capture was disabled.
C17_NoStreamWhileDisabled ==
    (~isCameraOn \/ ~mounted) => ~streamRef /\ liveStreams = 0

\* C19: at most one camera acquisition (a startCamera run that has not yet
\* seen its getUserMedia request settle) is in flight at any time.
C19_AtMostOneAcquisition == queries + gums <= 1

\* C20: releasing the camera is idempotent: stopCamera twice leaves the
\* state stopCamera once leaves (no stream held, video detached); with no
\* stream held it changes nothing; and it reports nothing to the controller.
C20_StopCameraIdempotent ==
    LET once == stopCamera(World)
    IN  /\ stopCamera(once) = once
        /\ ~once.streamRef /\ once.video = "none"
        /\ ~streamRef => once = World
        /\ once.isCameraReady = isCameraReady
        /\ once.hasCameraPermission = hasCameraPermission
        /\ once.error = error
        /\ once.isCameraOn = isCameraOn

\* the camera toggled off with a stream held and play() pending: the effect
\* cleanup and the effect body have both called stopCamera
C20_ReleasedTwice ==
    /\ ev.op = "handleCameraToggle" /\ ev.detail = "off"
    /\ ~streamRef /\ video = "none" /\ liveStreams = 0
    /\ abortedPlays = 1

\* C18: when the platform signals a change to denied while a stream is
\* held, the same onchange run releases the stream and reports (ready =
\* false, permission = denied, message); the controller is left with
\* isCameraOn false and isAnalyzing false, the timer cleared, with no poll
\* tick in between.
C18_RevocationStopsSession ==
    [][mounted /\ streamRef /\ ev'.op = "onchange" /\ ev'.detail = "denied" =>
         /\ ~streamRef' /\ liveStreams' = liveStreams - 1 /\ video' = "none"
         /\ ~isCameraReady'
         /\ hasCameraPermission' = PermFalse
         /\ error' = MsgRevoked
         /\ ~isCameraOn'
         /\ ~isAnalyzing' /\ ~isAnalyzingRef'
         /\ analysisIntervalRef' = NoTimer
         /\ timers' = TimersAfterClear]_vars

C18_RevokedWhileAnalyzing ==
    /\ ev.op = "onchange" /\ ev.detail = "denied"
    /\ ev.wasAnalyzing
    /\ ~isAnalyzing /\ ~isCameraOn
    /\ ~streamRef /\ liveStreams = 0
    /\ hasCameraPermission = PermFalse /\ error = MsgRevoked
    /\ Total(timers) = 0

FailedAcquisition ==
    \/ ev'.op = "query" /\ ev'.detail = "denied"
    \/ ev'.op = "getUserMedia" /\ ev'.detail \in {"NotAllowedError", "NotReadableError"}
    \/ ev'.op = "getUserMedia" /\ ev'.detail = "stream" /\ ~mounted
    \/ ev'.op = "play" /\ ev'.detail \in {"failed", "aborted"}
    \/ ev'.op = "video.onerror"

PermissionRefused ==
    \/ ev'.op = "query" /\ ev'.detail = "denied"
    \/ ev'.op = "getUserMedia" /\ ev'.detail = "NotAllowedError"

\* C22: every failed acquisition produces a report with ready = false and
\* leaves no stream held; the reported permission is denied exactly when the
\* permission query answered denied or getUserMedia rejected with
\* NotAllowedError or PermissionDeniedError.
C22_FailedAcquisitionReleases ==
    [][FailedAcquisition =>
         /\ failedSinceToggle'
         /\ mounted => /\ ~isCameraReady'
                       /\ hasCameraPermission' = PermFalse <=> PermissionRefused
         /\ ~streamRef']_vars

CameraUsable == isCameraOn /\ isCameraReady /\ hasCameraPermission = PermTrue

\* C26: at the start of each poll cycle the guard is evaluated against the
\* current session state: if at that moment the camera is not on, not ready
\* or not permitted, the cycle stops analysis, sets an error and issues no
\* capture or inference call.
C26_CycleGuardIsCurrent ==
    [][ev'.op = "tick" /\ mounted /\ ~CameraUsable =>
         /\ ~isAnalyzing' /\ ~isAnalyzingRef'
         /\ error' # NoError
         /\ ev'.detail \notin {"frame", "none"}
         /\ requests' = requests]_vars

\* the inference calls in flight, without the history mark
Unmarked(s) == [i \in DOMAIN s |-> [ex |-> s[i].ex, first |-> s[i].first]]

\* the step is the continuation of the first cycle's inference call i
FirstCycleEnds(i) ==
    /\ ev'.op \in {"verdict", "failure"}
    /\ requests[i].first
    /\ Unmarked(requests') = RemoveAt(Unmarked(requests), i)

TimerStarted == \E e \in EXERCISES : timers'[e] > timers[e]

\* C27: after the first poll cycle of a startAnalysis call completes, the
\* recurring timer is started if and only if analysis was not stopped during
\* that cycle, and isLoading is false in both cases; if analysis was stopped
\* during the first cycle (user stop, camera off, inference failure) that
\* call never starts a timer.
C27_TimerIffNotStopped ==
    [][/\ ev'.op = "startAnalysis" /\ ev'.detail = "none" =>
             ~isLoading' /\ TimerStarted
       /\ \A i \in DOMAIN requests :
             FirstCycleEnds(i) =>
                /\ ~isLoading'
                /\ TimerStarted <=> ~requests[i].stale /\ ev'.op = "verdict"]_vars

\* C29: the permission-change subscription is released whenever capture
\* stops: after capture has been disabled (camera off, or unmounted) a
\* platform permission-change event causes neither a report to the
\* controller nor a new camera acquisition.
C29_NoEventAfterDisable ==
    [][ev'.op = "onchange" /\ (~isCameraOn \/ ~mounted) =>
         /\ UNCHANGED <<isCameraReady, hasCameraPermission, error,
                        failedSinceToggle>>
         /\ queries' = queries /\ gums' = gums]_vars

\* C24: when handleCameraToggle turns the camera on, error is cleared if and
\* only if the recorded permission is not denied; an error recorded together
\* with a denied permission is kept.
C24_ToggleOnClearsUnlessDenied ==
    [][ev'.op = "handleCameraToggle" /\ ev'.detail = "on" =>
         error' = IF hasCameraPermission # PermFalse THEN NoError ELSE error]_vars

C24_DeniedErrorKept ==
    /\ ev.op = "handleCameraToggle" /\ ev.detail = "on"
    /\ isCameraOn
    /\ hasCameraPermission = PermFalse
    /\ error = MsgDenied

C30_DraftStartAnalyses ==
    [][/\ ev'.op = "startAnalysis" /\ DraftGuard =>
             /\ ev'.detail \in {"frame", "none"}
             /\ ev'.detail = "frame" => Len(requests') = Len(requests) + 1
             /\ ev'.detail = "none" => TimerStarted
       /\ ev'.op = "verdict" /\ ev'.detail = "first" =>
             analysisIntervalRef' # NoTimer]_vars

\* C31: in every reachable state isAnalyzing implies that an exercise is
\* selected, isCameraOn is true and the recorded permission is granted.
C31_AnalyzingImpliesUsable ==
    isAnalyzing =>
       /\ selectedExercise # NoExercise
       /\ isCameraOn
       /\ hasCameraPermission = PermTrue

\* the poll loop running on a granted, live camera after a verdict
C31_AnalyzingOnLiveCamera ==
    /\ isAnalyzing /\ isAnalyzingRef /\ analysisIntervalRef # NoTimer
    /\ feedback \in Verdicts
    /\ selectedExercise = "Squat"
    /\ isCameraOn /\ hasCameraPermission = PermTrue
    /\ permissionState = "granted" /\ listeners = 1

\* C32: in every reachable state isCameraReady implies that the Frame Source
\* holds an acquired, un-released stream; after the camera is toggled off (and
\* on again, before the re-acquisition completes) isCameraReady is not true,
\* so the guard of startAnalysis cannot pass while no stream is held.
C32_ReadyImpliesStream ==
    /\ isCameraReady => streamRef
    /\ StartGuard(World) => streamRef

\* C33: whenever feedback is replaced by an inference result, the result
\* was produced for a request whose exercise is the selected exercise; a
\* verdict for a previously selected exercise is never shown after the
\* selection changed.
C33_FeedbackForSelectedExercise ==
    feedback # NoFeedback => feedback.forExercise = selectedExercise

\* C34: feedback follows request order: once feedback has been replaced by
\* the response to a poll cycle, it is never later replaced by the response
\* to a poll cycle that was started earlier.
C34_FeedbackInRequestOrder ==
    [][\A i \in DOMAIN requests :
          /\ ev'.op = "verdict"
          /\ isAnalyzingRef
          /\ requests' = markOvertaken(RemoveAt(requests, i), i)
          /\ feedback' = ev'.result
          => ~requests[i].overtaken]_vars

\* C35: in every reachable state isLoading implies isAnalyzing, and isLoading
\* is true only between a startAnalysis that passed its guard and the
\* completion of that call's first poll cycle (its inference call is still
\* in flight and no stopAnalysis has overtaken it).
C35_LoadingOnlyInFirstCycle ==
    isLoading =>
       /\ isAnalyzing
       /\ \E i \in DOMAIN requests : requests[i].first /\ ~requests[i].stale

\* the first cycle of a restart, while the call of the stopped analysis is
\* still in flight
C35_LoadingAfterRestart ==
    /\ isLoading /\ isAnalyzing
    /\ ev.op = "startAnalysis" /\ ev.detail = "frame"
    /\ Len(requests) = 2
    /\ requests[1].stale /\ requests[2].first /\ ~requests[2].stale
    /\ Total(timers) = 0

\* what stopAnalysis is to leave alone
KeepsDisplay(w) ==
    /\ w.feedback = feedback
    /\ w.error = error
    /\ w.selectedExercise = selectedExercise
    /\ w.isCameraOn = isCameraOn
    /\ w.isCameraReady = isCameraReady
    /\ w.hasCameraPermission = hasCameraPermission

\* C36: stopAnalysis changes only the timer, isAnalyzing and isLoading:
\* feedback, error, selectedExercise, isCameraOn, isCameraReady and the
\* recorded permission are left unchanged (in part_002 and in page.tsx), so
\* the last verdict stays displayed after a manual stop.
C36_StopAnalysisFrame ==
    [][ev'.op = "stopAnalysis" =>
         /\ KeepsDisplay(stopAnalysis(World))
         /\ KeepsDisplay(page_stopAnalysis(World))
         /\ UNCHANGED <<feedback, error, selectedExercise, isCameraOn,
                        isCameraReady, hasCameraPermission,
                        streamRef, liveStreams, video>>]_vars

C36_VerdictStaysAfterStop ==
    /\ ev.op = "stopAnalysis" /\ ev.wasAnalyzing
    /\ ~isAnalyzing /\ ~isLoading /\ Total(timers) = 0
    /\ feedback \in Verdicts /\ feedback.forExercise = selectedExercise
    /\ isCameraOn /\ isCameraReady /\ streamRef

\* C37: turning the camera off with handleCameraToggle leaves error and
\* feedback unchanged (a displayed error is not cleared by a manual
\* turn-off) and leaves the recorded permission unchanged; part_001 does
\* the same.
C37_TurnOffKeepsDisplay ==
    [][ev'.op = "handleCameraToggle" /\ ev'.detail = "off" =>
         /\ UNCHANGED <<error, feedback, hasCameraPermission>>
         /\ LET draft == part001_handleCameraToggle(World)
            IN  /\ draft.error = error
                /\ draft.feedback = feedback
                /\ draft.hasCameraPermission = hasCameraPermission]_vars

C37_ErrorKeptOnTurnOff ==
    /\ ev.op = "handleCameraToggle" /\ ev.detail = "off"
    /\ ~isCameraOn
    /\ error = MsgAI
    /\ hasCameraPermission = PermTrue
    /\ ~streamRef

\* C38: in page.tsx and part_001 a state with isCameraOn = true is reachable
\* from the initial state (camera off, not ready) by user actions that the UI
\* enables: the camera button is enabled while the camera is off and has not
\* been ready.
C38_ToggleEnabledWhileOff ==
    ~isCameraOn /\ ~isCameraReady /\ hasCameraPermission # PermFalse =>
       ~DraftToggleDisabled

\* C39: liveness.  While analysis runs with the camera on, ready and
\* permitted, every captureFrame returning a frame and every inference call
\* returning a verdict, and with timer ticks and responses scheduled fairly:
\* feedback is eventually set; after the first cycle a tick eventually
\* fires, and after every tick that sent a frame a verdict is eventually
\* shown, each verdict that arrives replacing the feedback; and isAnalyzing
\* becomes false only by the user's stop.
C39_FeedbackKeepsComing ==
    /\ (isAnalyzing /\ feedback = NoFeedback)
          ~> (feedback \in Verdicts \/ ~isAnalyzing)
    /\ (isAnalyzing /\ ~isLoading /\ ev.op # "tick")
          ~> (ev.op = "tick" \/ ~isAnalyzing)
    /\ (isAnalyzing /\ ev.op = "tick" /\ ev.detail = "frame")
          ~> ((ev.op = "verdict" /\ feedback = ev.result) \/ ~isAnalyzing)
    /\ [][ev'.op = "verdict" /\ isAnalyzing' => feedback' = ev'.result]_vars
    /\ [][isAnalyzing /\ ~isAnalyzing' => ev'.op = "stopAnalysis"]_vars

\* the verdict of a poll cycle replaces the verdict shown before it
C39_PollVerdictReplaces ==
    /\ isAnalyzing
    /\ ~isLoading
    /\ ev.op = "verdict"
    /\ ev.detail = "poll"
    /\ feedback = ev.result
    /\ feedback.formCorrect = FALSE
    /\ analysisIntervalRef # NoTimer

=============================================================================
